---- MODULE Spec2Model ----
(***************************************************************************)
(* Voice-assistant relay: the WebSocket session loop of app.py, the        *)
(* synthesis breaker of services/tts_service.py, and the orchestrator and  *)
(* connection registry the loop drives (core/pipeline.py and               *)
(* core/connection_manager.py, modelled from the specification).           *)
(*                                                                         *)
(* One step of the model is one run of a coroutine between two suspension  *)
(* points of the single asyncio event loop: everything the code does       *)
(* between two awaits that really suspend is atomic.                       *)
(***************************************************************************)
EXTENDS Integers, Sequences, FiniteSets, TLC

\* ---------------------------------------------------------------- bounds
NumSessions == 2
MaxTurns == 2
NumRequests == 2
NumCalls == 2

\* ------------------------------------------------------ program constants
max_failures == 3
WS_MAX_CONNECTIONS == 100

Sessions == 1..NumSessions
\* One-shot REST requests: each is one call of POST /process-text.
Requests == 1..NumRequests
\* Call ids are the path parameter of the WebSocket URL: any session may name any
\* of them, so two sessions may share one.
CallIds == 1..NumSessions
None == 0
\* Invocations of a service made directly, outside a session loop.
Calls == 1..NumCalls

\* What the stt_service module found at import and the model it loaded: numpy is
\* always there, because the annotation np.ndarray of _preprocess_audio is
\* evaluated when the class is defined; a model is loaded only with whisper.
SttEnvs ==
    {e \in [WHISPER_AVAILABLE : BOOLEAN, NUMPY_AVAILABLE : {TRUE},
            SOUNDFILE_AVAILABLE : BOOLEAN, model_loaded : BOOLEAN] :
        e.model_loaded => e.WHISPER_AVAILABLE}

\* Every library imported and the model loaded.
Installed ==
    [WHISPER_AVAILABLE |-> TRUE, NUMPY_AVAILABLE |-> TRUE,
     SOUNDFILE_AVAILABLE |-> TRUE, model_loaded |-> TRUE]

\* A call that returns value v, and one that raises exception e to its caller.
Returns(v) == [raised |-> FALSE, value |-> v]
Raises(e) == [raised |-> TRUE, exception |-> e]

\* The record of a service call: the operation, its inputs, its outcome.
Called(op, input, outcome) == [op |-> op, input |-> input, outcome |-> outcome]
NoCall == Called("none", None, Returns(None))

InboundTypes == {"audio_chunk", "text_message", "reset", "ping", "end_call", "unknown"}
AudioFields == {"hex", "invalid"}

VARIABLES
    use_edge_tts,          \* TTSService.use_edge_tts
    edge_tts_failures,     \* TTSService.edge_tts_failures
    active_connections,    \* registry: call id -> connection handle or None
    conversation_history,  \* call id -> sequence of turns
    pc,                    \* session -> where its coroutine is suspended
    call_id,               \* session -> the call id of its URL path
    ws_open,               \* session -> its connection handle is open
    message_type,          \* session -> type tag of the message in the pipeline
    handled,               \* observer: what the last step finished handling
    observed_failures,     \* observer: failed adapter calls since the last success or reset
    ws_max_connections,    \* settings.WS_MAX_CONNECTIONS as configured at start-up
    rest_pc,               \* REST request -> where its handler is suspended
    rest_call,             \* REST request -> the call id it processes
    rest_text,             \* REST request -> the text it processes
    successes,             \* observer: call id -> texts of the successful one-shot calls since its last reset
    mixed,                 \* observer: call id -> a failed or overlapping call touched it since then
    stt_env,               \* stt_service module flags and STTService._model as set at start-up
    tts_pc,                \* direct synthesis invocation -> where it is suspended
    http_session,          \* InboundService.session: not created, open, or closed
    svc_result             \* observer: the last call of a service, its inputs and its outcome

vars == <<use_edge_tts, edge_tts_failures, active_connections, conversation_history,
          pc, call_id, ws_open, message_type, handled, observed_failures,
          ws_max_connections, rest_pc, rest_call, rest_text, successes, mixed,
          stt_env, tts_pc, http_session, svc_result>>

breaker == <<use_edge_tts, edge_tts_failures, observed_failures>>

\* The state of the WebSocket sessions and of the registry.
sessions == <<active_connections, pc, call_id, ws_open, message_type>>

\* The state of the one-shot REST requests.
rest == <<rest_pc, rest_call, rest_text, successes, mixed>>

\* The state of the services when they are called directly.
services == <<stt_env, tts_pc, http_session, svc_result>>

\* ------------------------------------------------------ synthesis breaker

\* Variant of EdgeEnabled: the guard reads the counter alone.
EdgeEnabled_CounterOnly == edge_tts_failures < max_failures

\* The guard of text_to_speech_bytes: the adapter is called only when it holds.
EdgeEnabled == use_edge_tts /\ edge_tts_failures < max_failures

\* Variant of EdgeSuccess: the success path forgets to reset the counter.
EdgeSuccess_KeepsCount == UNCHANGED <<edge_tts_failures, use_edge_tts>>

\* The success path after the stream has been read.
EdgeSuccess ==
    /\ edge_tts_failures' = 0
    /\ UNCHANGED use_edge_tts

\* Variant of EdgeFailure: the threshold test is off by one.
EdgeFailure_OffByOne ==
    /\ edge_tts_failures' = edge_tts_failures + 1
    /\ use_edge_tts' = IF edge_tts_failures + 1 > max_failures THEN FALSE ELSE use_edge_tts

\* The except path: count the failure and disable at the threshold.
EdgeFailure ==
    /\ edge_tts_failures' = edge_tts_failures + 1
    /\ use_edge_tts' = IF edge_tts_failures + 1 >= max_failures THEN FALSE ELSE use_edge_tts

\* Variant of ResetBreaker: the reset clears the counter but not the flag.
ResetBreaker_CounterOnly ==
    /\ edge_tts_failures' = 0
    /\ UNCHANGED use_edge_tts

\* TTSService.reset_edge_tts
ResetBreaker ==
    /\ edge_tts_failures' = 0
    /\ use_edge_tts' = TRUE

\* --------------------------------------------------- conversation store

UserTurn(text) == [role |-> "user", text |-> text]
AssistantTurn(text) == [role |-> "assistant", text |-> text]

Append_turn(h, c, t) == [h EXCEPT ![c] = Append(h[c], t)]

reset_conversation(h, c) == [h EXCEPT ![c] = <<>>]

\* ---------------------------------------------------- session registry

ConnectionCount == Cardinality({c \in CallIds : active_connections[c] # None})

disconnect(reg, c) == [reg EXCEPT ![c] = None]

\* Variant of AtCapacity: the limit is tested after the new entry is counted.
AtCapacity_OffByOne(c) ==
    active_connections[c] = None /\ ConnectionCount > ws_max_connections

\* A connect for call id c would add an entry to a registry that is full.
AtCapacity(c) ==
    active_connections[c] = None /\ ConnectionCount >= ws_max_connections

\* Variant of connect: the handle registered before stays open.
connect_KeepsPrior(s, c) ==
    /\ active_connections' = [active_connections EXCEPT ![c] = s]
    /\ ws_open' = [ws_open EXCEPT ![s] = TRUE]

\* The registry's connect: the handle of session s is accepted and registered
\* under call id c; a handle registered there before is closed and replaced.
connect(s, c) ==
    /\ active_connections' = [active_connections EXCEPT ![c] = s]
    /\ ws_open' = [t \in Sessions |->
                      IF t = s THEN TRUE
                      ELSE IF t = active_connections[c] THEN FALSE
                      ELSE ws_open[t]]

\* The registry's send: the handle that receives a message sent to call id c,
\* None when c is unknown (the send reports failure and does nothing).
send_message(reg, c) == IF c \in DOMAIN reg THEN reg[c] ELSE None

\* ------------------------------------------------------------- pipeline

\* A pipeline result is named by its error: the stage that failed, and for the
\* synthesis stage whether the adapter was called ("tts_error") or the call was
\* short-circuited ("tts_unavailable"); the dictionary the code returns is the
\* same for both.
Results == {"success", "stt_error", "gen_error", "tts_error", "tts_unavailable"}

Success(res) == res = "success"

\* The fields a pipeline result carries besides its success flag: the payloads
\* of the stages that completed, and the error of the stage that failed.
Attached(type, res) ==
    (IF type = "audio_chunk" /\ res # "stt_error" THEN {"transcription"} ELSE {})
    \cup (IF res \in {"success", "tts_error", "tts_unavailable"}
          THEN {"ai_response"} ELSE {})
    \cup (IF Success(res) THEN {"audio_data", "audio_format"} ELSE {"error"})

\* ---------------------------------------------------------- dispatcher

\* Variant of ControlReply: a type that is not recognized is answered by an error.
ControlReply_ErrorOnUnknown(type) ==
    IF type = "reset" THEN <<"reset_complete">>
    ELSE IF type = "ping" THEN <<"pong">>
    ELSE <<"error">>

\* The outbound message the loop sends for a reset or a ping; other types send none.
ControlReply(type) ==
    IF type = "reset" THEN <<"reset_complete">>
    ELSE IF type = "ping" THEN <<"pong">>
    ELSE <<>>

\* Variant of Outbound: the reply text is sent before the transcription.
Outbound_Swapped(type, res) ==
    IF type = "audio_chunk"
    THEN IF Success(res)
         THEN <<"ai_response", "transcription", "audio_response">>
         ELSE <<"error">>
    ELSE IF Success(res) THEN <<"ai_response">> ELSE <<>>

\* The outbound messages the loop sends for a pipeline result.
Outbound(type, res) ==
    IF type = "audio_chunk"
    THEN IF Success(res)
         THEN <<"transcription", "ai_response", "audio_response">>
         ELSE <<"error">>
    ELSE IF Success(res) THEN <<"ai_response">> ELSE <<>>

\* What a step finished: the session and its call id, the inbound message type
\* (or "read_error", "connect", "reset_edge_tts"), the pipeline result returned
\* for it ("none" when the pipeline did not return), the outbound messages
\* the loop sent for it, in order, and the handle that was registered under the
\* call id when the step began (the one the registry's send hands them to).
Handled(s, type, res, out) ==
    [sid |-> s, call |-> IF s = None THEN None ELSE call_id[s],
     type |-> type, result |-> res, emitted |-> out,
     registered |-> IF s = None THEN None
                    ELSE send_message(active_connections, call_id[s])]

\* A step that finishes nothing: a stage of the pipeline that hands on to the next.
Nothing == Handled(None, "none", "none", <<>>)

\* Variant of Deliver: the loop stops after a failed pipeline call.
Deliver_StopsOnFailure(s, res) ==
    /\ handled' = Handled(s, message_type[s], res, Outbound(message_type[s], res))
    /\ message_type' = [message_type EXCEPT ![s] = "none"]
    /\ pc' = [pc EXCEPT ![s] = IF Success(res) THEN "receive" ELSE "closed"]

\* Variant of Deliver: a send to a call id that is no longer registered raises
\* and ends the loop.
Deliver_RaisesOnUnknown(s, res) ==
    /\ handled' = Handled(s, message_type[s], res, Outbound(message_type[s], res))
    /\ message_type' = [message_type EXCEPT ![s] = "none"]
    /\ pc' = [pc EXCEPT ![s] =
                 IF send_message(active_connections, call_id[s]) = None
                    /\ Outbound(message_type[s], res) # <<>>
                 THEN "closed" ELSE "receive"]

\* The pipeline call of session s returns res; the loop sends the outbound
\* messages and is back at websocket.receive_json().
Deliver(s, res) ==
    /\ handled' = Handled(s, message_type[s], res, Outbound(message_type[s], res))
    /\ message_type' = [message_type EXCEPT ![s] = "none"]
    /\ pc' = [pc EXCEPT ![s] = "receive"]

\* Variant of Teardown: the finally clause deregisters but keeps the history.
Teardown_KeepsHistory(s) ==
    /\ active_connections' = disconnect(active_connections, call_id[s])
    /\ UNCHANGED conversation_history

\* Variant of Teardown: disconnect raises for a call id that is not registered,
\* so the reset after it in the finally clause is not reached.
Teardown_RaisesOnUnknown(s) ==
    /\ active_connections' = disconnect(active_connections, call_id[s])
    /\ conversation_history' =
           IF active_connections[call_id[s]] = None
           THEN conversation_history
           ELSE reset_conversation(conversation_history, call_id[s])

\* The finally clause of websocket_endpoint.
Teardown(s) ==
    /\ active_connections' = disconnect(active_connections, call_id[s])
    /\ conversation_history' = reset_conversation(conversation_history, call_id[s])

\* The loop of session s ends: except clauses, then the finally clause. The
\* coroutine and its locals are gone afterwards.
LoopExit(s) ==
    /\ Teardown(s)
    /\ pc' = [pc EXCEPT ![s] = "closed"]
    /\ ws_open' = [ws_open EXCEPT ![s] = FALSE]
    /\ call_id' = [call_id EXCEPT ![s] = None]
    /\ UNCHANGED message_type

\* The state after start-up, whatever the configured session limit.
Setup ==
    /\ use_edge_tts = TRUE
    /\ edge_tts_failures = 0
    /\ observed_failures = 0
    /\ active_connections = [c \in CallIds |-> None]
    /\ conversation_history = [c \in CallIds |-> <<>>]
    /\ pc = [s \in Sessions |-> "init"]
    /\ call_id = [s \in Sessions |-> None]
    /\ ws_open = [s \in Sessions |-> FALSE]
    /\ message_type = [s \in Sessions |-> "none"]
    /\ handled = Nothing
    /\ rest_pc = [r \in Requests |-> "idle"]
    /\ rest_call = [r \in Requests |-> None]
    /\ rest_text = [r \in Requests |-> ""]
    /\ successes = [c \in CallIds |-> <<>>]
    /\ mixed = [c \in CallIds |-> FALSE]
    /\ tts_pc = [k \in Calls |-> "idle"]
    /\ http_session = "none"
    /\ svc_result = NoCall

\* Start-up with the default session limit.
Init == Setup /\ ws_max_connections = WS_MAX_CONNECTIONS /\ stt_env = Installed

\* Start-up with the session limit configured below the number of clients.
InitCapacity ==
    Setup /\ ws_max_connections \in 1..(NumSessions - 1) /\ stt_env = Installed

\* manager.connect(websocket, call_id), before the try block. Call ids are
\* interchangeable, so session s names one of the first s of them.
Connect(s, c) ==
    /\ pc[s] = "init"
    /\ c <= s
    /\ IF AtCapacity(c)
       THEN /\ pc' = [pc EXCEPT ![s] = "closed"]
            /\ handled' = [Handled(s, "connect", "capacity_error", <<>>)
                              EXCEPT !.call = c, !.registered = active_connections[c]]
            /\ UNCHANGED <<active_connections, ws_open, call_id>>
       ELSE /\ connect(s, c)
            /\ call_id' = [call_id EXCEPT ![s] = c]
            /\ pc' = [pc EXCEPT ![s] = "receive"]
            /\ handled' = [Handled(s, "connect", "none", <<>>)
                              EXCEPT !.call = c, !.registered = active_connections[c]]
    /\ UNCHANGED <<breaker, conversation_history, message_type>>
    /\ UNCHANGED <<ws_max_connections, services, rest>>

\* websocket.receive_json() returns an audio_chunk; bytes.fromhex raises on a
\* missing or malformed audio field, otherwise process_audio runs to the STT call.
ReceiveAudio(s, audio) ==
    /\ pc[s] = "receive"
    /\ ws_open[s]
    /\ Len(conversation_history[call_id[s]]) + 2 <= MaxTurns
    /\ IF audio = "hex"
       THEN /\ message_type' = [message_type EXCEPT ![s] = "audio_chunk"]
            /\ pc' = [pc EXCEPT ![s] = "stt"]
            /\ handled' = Nothing
            /\ UNCHANGED <<active_connections, conversation_history, ws_open, call_id>>
       ELSE /\ LoopExit(s)
            /\ handled' = Handled(s, "audio_chunk", "none", <<>>)
    /\ UNCHANGED breaker
    /\ UNCHANGED <<ws_max_connections, services, rest>>

\* Variant of ReceiveText: the loop reads the next message while the synthesis
\* of the current one is still awaited.
ReceiveText_Pipelined(s) ==
    /\ pc[s] \in {"receive", "tts"}
    /\ ws_open[s]
    /\ Len(conversation_history[call_id[s]]) + 2 <= MaxTurns
    /\ message_type' = [message_type EXCEPT ![s] = "text_message"]
    /\ conversation_history' =
           Append_turn(conversation_history, call_id[s], UserTurn("hello"))
    /\ pc' = [pc EXCEPT ![s] = "gen"]
    /\ handled' = Nothing
    /\ UNCHANGED <<breaker, active_connections, ws_open, call_id>>
    /\ UNCHANGED <<ws_max_connections, services, rest>>

\* websocket.receive_json() returns a text_message: process_text appends the
\* user turn and runs to the Generation call.
ReceiveText(s) ==
    /\ pc[s] = "receive"
    /\ ws_open[s]
    /\ Len(conversation_history[call_id[s]]) + 2 <= MaxTurns
    /\ message_type' = [message_type EXCEPT ![s] = "text_message"]
    /\ conversation_history' =
           Append_turn(conversation_history, call_id[s], UserTurn("hello"))
    /\ pc' = [pc EXCEPT ![s] = "gen"]
    /\ handled' = Nothing
    /\ UNCHANGED <<breaker, active_connections, ws_open, call_id>>
    /\ UNCHANGED <<ws_max_connections, services, rest>>

\* Variant of ReceiveControl: every control message clears the history.
ReceiveControl_AlwaysResets(s, type) ==
    /\ pc[s] = "receive"
    /\ ws_open[s]
    /\ type \in {"reset", "ping", "unknown"}
    /\ conversation_history' = reset_conversation(conversation_history, call_id[s])
    /\ handled' = Handled(s, type, "none", ControlReply(type))
    /\ UNCHANGED <<breaker, active_connections, pc, ws_open, call_id, message_type>>
    /\ UNCHANGED <<ws_max_connections, services, rest>>

\* websocket.receive_json() returns a reset, a ping or a message of another type.
ReceiveControl(s, type) ==
    /\ pc[s] = "receive"
    /\ ws_open[s]
    /\ type \in {"reset", "ping", "unknown"}
    /\ conversation_history' =
           IF type = "reset"
           THEN reset_conversation(conversation_history, call_id[s])
           ELSE conversation_history
    /\ handled' = Handled(s, type, "none", ControlReply(type))
    /\ UNCHANGED <<breaker, active_connections, pc, ws_open, call_id, message_type>>
    /\ UNCHANGED <<ws_max_connections, services, rest>>

\* Variant of EndCall: the loop goes on to the next message after an end_call.
EndCall_Continues(s) ==
    /\ pc[s] = "receive"
    /\ ws_open[s]
    /\ handled' = Handled(s, "end_call", "none", <<>>)
    /\ UNCHANGED <<breaker, sessions, conversation_history>>
    /\ UNCHANGED <<ws_max_connections, services, rest>>

\* websocket.receive_json() returns an end_call: break.
EndCall(s) ==
    /\ pc[s] = "receive"
    /\ ws_open[s]
    /\ LoopExit(s)
    /\ handled' = Handled(s, "end_call", "none", <<>>)
    /\ UNCHANGED breaker
    /\ UNCHANGED <<ws_max_connections, services, rest>>

\* websocket.receive_json() raises: the peer is gone, the handle was closed, or
\* the frame is not JSON.
ReceiveError(s) ==
    /\ pc[s] = "receive"
    /\ LoopExit(s)
    /\ handled' = Handled(s, "read_error", "none", <<>>)
    /\ UNCHANGED breaker
    /\ UNCHANGED <<ws_max_connections, services, rest>>

\* Variant of SttDone: the result of the STT stage is not tested, and the
\* pipeline goes on with the (empty) transcription.
SttDone_ContinuesOnFailure(s, ok) ==
    /\ pc[s] = "stt"
    /\ conversation_history' =
           Append_turn(conversation_history, call_id[s], UserTurn(IF ok THEN "hello" ELSE ""))
    /\ pc' = [pc EXCEPT ![s] = "gen"]
    /\ handled' = Nothing
    /\ UNCHANGED message_type
    /\ UNCHANGED <<breaker, active_connections, call_id, ws_open>>
    /\ UNCHANGED <<ws_max_connections, services, rest>>

\* The STT stage of process_audio returns.
SttDone(s, ok) ==
    /\ pc[s] = "stt"
    /\ IF ok
       THEN /\ conversation_history' =
                   Append_turn(conversation_history, call_id[s], UserTurn("hello"))
            /\ pc' = [pc EXCEPT ![s] = "gen"]
            /\ handled' = Nothing
            /\ UNCHANGED message_type
       ELSE /\ Deliver(s, "stt_error")
            /\ UNCHANGED conversation_history
    /\ UNCHANGED <<breaker, active_connections, call_id, ws_open>>
    /\ UNCHANGED <<ws_max_connections, services, rest>>

\* Variant of GenDone: the result of the Generation stage is not tested, and the
\* pipeline goes on to the synthesis with the (empty) reply.
GenDone_ContinuesOnFailure(s, ok) ==
    /\ pc[s] = "gen"
    /\ conversation_history' =
           Append_turn(conversation_history, call_id[s],
                       AssistantTurn(IF ok THEN "hi there" ELSE ""))
    /\ IF EdgeEnabled
       THEN /\ pc' = [pc EXCEPT ![s] = "tts"]
            /\ handled' = Nothing
            /\ UNCHANGED message_type
       ELSE Deliver(s, "tts_unavailable")
    /\ UNCHANGED <<breaker, active_connections, call_id, ws_open>>
    /\ UNCHANGED <<ws_max_connections, services, rest>>

\* The Generation stage returns; on success the pipeline enters text_to_speech_bytes.
GenDone(s, ok) ==
    /\ pc[s] = "gen"
    /\ IF ok
       THEN /\ conversation_history' =
                   Append_turn(conversation_history, call_id[s], AssistantTurn("hi there"))
            /\ IF EdgeEnabled
               THEN /\ pc' = [pc EXCEPT ![s] = "tts"]
                    /\ handled' = Nothing
                    /\ UNCHANGED message_type
               ELSE Deliver(s, "tts_unavailable")
       ELSE /\ Deliver(s, "gen_error")
            /\ UNCHANGED conversation_history
    /\ UNCHANGED <<breaker, active_connections, call_id, ws_open>>
    /\ UNCHANGED <<ws_max_connections, services, rest>>

\* communicate.stream() ends: with audio, or by raising.
TtsDone(s, ok) ==
    /\ pc[s] = "tts"
    /\ IF ok
       THEN /\ EdgeSuccess
            /\ observed_failures' = 0
            /\ Deliver(s, "success")
       ELSE /\ EdgeFailure
            /\ observed_failures' = observed_failures + 1
            /\ Deliver(s, "tts_error")
    /\ UNCHANGED <<active_connections, conversation_history, call_id, ws_open>>
    /\ UNCHANGED <<ws_max_connections, services, rest>>

\* The administrative reset of the breaker.
reset_edge_tts ==
    /\ ResetBreaker
    /\ observed_failures' = 0
    /\ handled' = Handled(None, "reset_edge_tts", "none", <<>>)
    /\ UNCHANGED <<active_connections, conversation_history, pc, call_id, ws_open,
                   message_type>>
    /\ UNCHANGED <<ws_max_connections, services, rest>>

Next ==
    \/ \E s \in Sessions, c \in CallIds : Connect(s, c)
    \/ \E s \in Sessions, audio \in AudioFields : ReceiveAudio(s, audio)
    \/ \E s \in Sessions : ReceiveText(s)
    \/ \E s \in Sessions, type \in InboundTypes : ReceiveControl(s, type)
    \/ \E s \in Sessions : EndCall(s)
    \/ \E s \in Sessions : ReceiveError(s)
    \/ \E s \in Sessions, ok \in BOOLEAN : SttDone(s, ok)
    \/ \E s \in Sessions, ok \in BOOLEAN : GenDone(s, ok)
    \/ \E s \in Sessions, ok \in BOOLEAN : TtsDone(s, ok)
    \/ reset_edge_tts

Spec == Init /\ [][Next]_vars

\* The same program started with a session limit the clients can reach.
SpecCapacity == InitCapacity /\ [][Next]_vars

\* ------------------------------------------------- one-shot REST requests

\* The texts a request body carries: a text, or none.
Texts == {"hello", "bye", ""}

\* The reply of the Generation stage to a text.
Reply(text) == IF text = "hello" THEN "hi there" ELSE "goodbye"

\* The requests whose process_text call on call id c has not returned yet.
InFlight(c) == {r \in Requests : rest_pc[r] \in {"gen", "tts"} /\ rest_call[r] = c}

\* What a REST handler answered for call id c.
Responded(c, type, res) == [Handled(None, type, res, <<>>) EXCEPT !.call = c]

\* process_text of request r returns res and the handler answers with it.
Respond(r, res) ==
    /\ rest_pc' = [rest_pc EXCEPT ![r] = "done"]
    /\ rest_call' = [rest_call EXCEPT ![r] = None]
    /\ rest_text' = [rest_text EXCEPT ![r] = ""]
    /\ handled' = Responded(rest_call[r], "process_text", res)
    /\ successes' = IF Success(res) /\ ~mixed[rest_call[r]]
                    THEN [successes EXCEPT ![rest_call[r]] = Append(@, rest_text[r])]
                    ELSE successes
    /\ mixed' = IF Success(res) THEN mixed ELSE [mixed EXCEPT ![rest_call[r]] = TRUE]

\* POST /process-text with call id c in the body: a missing or empty text raises
\* inside the try block and is answered by the except clause; otherwise
\* process_text appends the user turn and runs to the Generation call. Call ids
\* are interchangeable, so request r names one of the first r of them. A body
\* without call id gets an id of its own, whose history no other request reads.
RestProcessText(r, c, text) ==
    /\ rest_pc[r] = "idle"
    /\ c <= r
    /\ IF text = ""
       THEN /\ rest_pc' = [rest_pc EXCEPT ![r] = "done"]
            /\ handled' = Responded(c, "process_text", "http_500")
            /\ UNCHANGED <<conversation_history, rest_call, rest_text, successes, mixed>>
       ELSE /\ conversation_history' =
                   Append_turn(conversation_history, c, UserTurn(text))
            /\ rest_pc' = [rest_pc EXCEPT ![r] = "gen"]
            /\ rest_call' = [rest_call EXCEPT ![r] = c]
            /\ rest_text' = [rest_text EXCEPT ![r] = text]
            /\ mixed' = [mixed EXCEPT ![c] = @ \/ InFlight(c) # {}]
            /\ handled' = Nothing
            /\ UNCHANGED successes
    /\ UNCHANGED <<breaker, sessions, ws_max_connections, services>>

\* Variant of RestGenDone: the reply is returned without being recorded.
RestGenDone_SkipsAssistant(r, ok) ==
    /\ rest_pc[r] = "gen"
    /\ IF ok
       THEN IF EdgeEnabled
            THEN /\ rest_pc' = [rest_pc EXCEPT ![r] = "tts"]
                 /\ handled' = Nothing
                 /\ UNCHANGED <<rest_call, rest_text, successes, mixed>>
            ELSE Respond(r, "tts_unavailable")
       ELSE Respond(r, "gen_error")
    /\ UNCHANGED <<breaker, sessions, ws_max_connections, services, conversation_history>>

\* The Generation stage of request r returns; on success the reply is appended
\* and the pipeline enters text_to_speech_bytes.
RestGenDone(r, ok) ==
    /\ rest_pc[r] = "gen"
    /\ IF ok
       THEN /\ conversation_history' =
                   Append_turn(conversation_history, rest_call[r],
                               AssistantTurn(Reply(rest_text[r])))
            /\ IF EdgeEnabled
               THEN /\ rest_pc' = [rest_pc EXCEPT ![r] = "tts"]
                    /\ handled' = Nothing
                    /\ UNCHANGED <<rest_call, rest_text, successes, mixed>>
               ELSE Respond(r, "tts_unavailable")
       ELSE /\ Respond(r, "gen_error")
            /\ UNCHANGED conversation_history
    /\ UNCHANGED <<breaker, sessions, ws_max_connections, services>>

\* communicate.stream() of request r ends: with audio, or by raising.
RestTtsDone(r, ok) ==
    /\ rest_pc[r] = "tts"
    /\ IF ok
       THEN /\ EdgeSuccess
            /\ observed_failures' = 0
            /\ Respond(r, "success")
       ELSE /\ EdgeFailure
            /\ observed_failures' = observed_failures + 1
            /\ Respond(r, "tts_error")
    /\ UNCHANGED <<sessions, ws_max_connections, services, conversation_history>>

\* Variant of RestResetConversation: the store is cleared as a whole.
RestResetConversation_ClearsAll(c) ==
    /\ conversation_history' = [d \in CallIds |-> <<>>]
    /\ handled' = Responded(c, "reset_conversation", "success")
    /\ successes' = [successes EXCEPT ![c] = <<>>]
    /\ mixed' = [mixed EXCEPT ![c] = InFlight(c) # {}]
    /\ UNCHANGED <<breaker, sessions, ws_max_connections, services, rest_pc, rest_call, rest_text>>

\* POST /reset-conversation/{call_id}
RestResetConversation(c) ==
    /\ conversation_history' = reset_conversation(conversation_history, c)
    /\ handled' = Responded(c, "reset_conversation", "success")
    /\ successes' = [successes EXCEPT ![c] = <<>>]
    /\ mixed' = [mixed EXCEPT ![c] = InFlight(c) # {}]
    /\ UNCHANGED <<breaker, sessions, ws_max_connections, services, rest_pc, rest_call, rest_text>>

NextText ==
    \/ \E r \in Requests, c \in CallIds, text \in Texts : RestProcessText(r, c, text)
    \/ \E r \in Requests, ok \in BOOLEAN : RestGenDone(r, ok)
    \/ \E r \in Requests, ok \in BOOLEAN : RestTtsDone(r, ok)
    \/ \E c \in CallIds : RestResetConversation(c)
    \/ reset_edge_tts

\* The REST clients alone: one-shot text requests and the force-reset.
SpecText == Init /\ [][NextText]_vars

\* --------------------------------------------- the STT service, called directly

\* What the audio bytes of a call are, and what the libraries under the service
\* do with them. Every exception they raise carries a message.
AudioData == {"speech", "empty", "unreadable"}
RawTexts == {<<>>, <<" ">>, <<" ", "h", "i", " ">>}
Upstream == [preprocess : {"ok", "raises"}, transcribe : {"ok", "raises"}, raw : RawTexts]

\* str.strip() of a text, a sequence of characters.
RECURSIVE lstrip(_)
lstrip(text) == IF text # <<>> /\ Head(text) = " " THEN lstrip(Tail(text)) ELSE text

RECURSIVE rstrip(_)
rstrip(text) ==
    IF text # <<>> /\ text[Len(text)] = " "
    THEN rstrip(SubSeq(text, 1, Len(text) - 1))
    ELSE text

strip(text) == rstrip(lstrip(text))

\* The failure result of transcribe_audio.
SttFailure(error_msg) ==
    [success |-> FALSE, text |-> <<>>, language |-> "", error |-> error_msg]

\* STTService._preprocess_audio: whatever goes wrong is raised again as an
\* STTException.
_preprocess_audio(upstream) ==
    IF upstream.preprocess = "raises"
    THEN Raises("Audio preprocessing failed")
    ELSE Returns("samples")

\* Variant of transcribe_audio: the preprocessing is called outside the try block.
transcribe_audio_Unguarded(env, audio_data, upstream) ==
    IF ~env.WHISPER_AVAILABLE
    THEN Returns(SttFailure("Whisper module not available - STT service disabled"))
    ELSE IF ~env.NUMPY_AVAILABLE
    THEN Returns(SttFailure("NumPy module not available - STT service disabled"))
    ELSE IF ~env.SOUNDFILE_AVAILABLE
    THEN Returns(SttFailure("SoundFile module not available - STT service disabled"))
    ELSE IF ~env.model_loaded
    THEN Returns(SttFailure("Whisper model not loaded - STT service disabled"))
    ELSE IF audio_data # "speech"
    THEN Returns(SttFailure("Error opening audio"))
    ELSE IF _preprocess_audio(upstream).raised
    THEN _preprocess_audio(upstream)
    ELSE IF upstream.transcribe = "raises"
    THEN Returns(SttFailure("Transcription failed"))
    ELSE Returns([success |-> TRUE, text |-> strip(upstream.raw),
                  language |-> "en", confidence |-> 95])

\* STTService.transcribe_audio: the four early returns, then the try block
\* (sf.read, _preprocess_audio, _model.transcribe) and its except clause.
transcribe_audio(env, audio_data, upstream) ==
    IF ~env.WHISPER_AVAILABLE
    THEN Returns(SttFailure("Whisper module not available - STT service disabled"))
    ELSE IF ~env.NUMPY_AVAILABLE
    THEN Returns(SttFailure("NumPy module not available - STT service disabled"))
    ELSE IF ~env.SOUNDFILE_AVAILABLE
    THEN Returns(SttFailure("SoundFile module not available - STT service disabled"))
    ELSE IF ~env.model_loaded
    THEN Returns(SttFailure("Whisper model not loaded - STT service disabled"))
    ELSE IF audio_data # "speech"
    THEN Returns(SttFailure("Error opening audio"))
    ELSE IF _preprocess_audio(upstream).raised
    THEN Returns(SttFailure(_preprocess_audio(upstream).exception))
    ELSE IF upstream.transcribe = "raises"
    THEN Returns(SttFailure("Transcription failed"))
    ELSE Returns([success |-> TRUE, text |-> strip(upstream.raw),
                  language |-> "en", confidence |-> 95])

\* STTService.health_check
stt_health_check(env) ==
    /\ env.WHISPER_AVAILABLE
    /\ env.NUMPY_AVAILABLE
    /\ env.SOUNDFILE_AVAILABLE
    /\ env.model_loaded

\* What no step of the services touches: the sessions, the store, the REST
\* requests and the configuration.
app_state == <<sessions, conversation_history, handled, ws_max_connections, rest>>

\* A caller awaits transcribe_audio(audio_data).
Transcribe(audio_data, upstream) ==
    /\ svc_result' = Called("transcribe_audio",
                            [audio_data |-> audio_data, upstream |-> upstream],
                            transcribe_audio(stt_env, audio_data, upstream))
    /\ UNCHANGED <<breaker, app_state, stt_env, tts_pc, http_session>>

\* ----------------------------------------- the inbound service, called directly

\* What the remote backend does with a request: it answers with a status, the
\* request raises, or it times out; and whether the body of an answer can be read.
RemoteOutcomes == [status : {"200", "500", "raises", "timeout"}, body : {"ok", "raises"}]

\* `if not self.session: await self.initialize()`
EnsureSession(session) == IF session = "none" THEN "open" ELSE session

\* self.session.post or .get: the status of the answer, or "raises" when the
\* session is closed, the request raises, or the 30 s total timeout expires.
Request(session, remote) ==
    IF EnsureSession(session) = "closed" \/ remote.status \in {"raises", "timeout"}
    THEN "raises"
    ELSE remote.status

\* InboundService._fallback_routing
_fallback_routing ==
    [success |-> TRUE, twiml |-> "<Response>Connecting you to our AI assistant.</Response>",
     routing |-> "fallback_ai"]

\* Variant of process_inbound_call: a non-200 answer is reported as a failure.
process_inbound_call_FailsOnStatus(session, remote) ==
    IF Request(session, remote) = "raises"
    THEN Returns(_fallback_routing)
    ELSE IF Request(session, remote) = "200"
    THEN IF remote.body = "raises"
         THEN Returns(_fallback_routing)
         ELSE Returns([success |-> TRUE, twiml |-> "<Response>remote</Response>",
                       routing |-> "nodejs_backend"])
    ELSE Returns([success |-> FALSE, twiml |-> "", routing |-> "none"])

\* InboundService.process_inbound_call
process_inbound_call(session, remote) ==
    IF Request(session, remote) = "raises"
    THEN Returns(_fallback_routing)
    ELSE IF Request(session, remote) = "200"
    THEN IF remote.body = "raises"
         THEN Returns(_fallback_routing)
         ELSE Returns([success |-> TRUE, twiml |-> "<Response>remote</Response>",
                       routing |-> "nodejs_backend"])
    ELSE Returns(_fallback_routing)

\* InboundService._get_mock_queue_data
_get_mock_queue_data ==
    [sales |-> [length |-> 2, avg_wait |-> 45],
     tech |-> [length |-> 1, avg_wait |-> 30],
     billing |-> [length |-> 0, avg_wait |-> 0],
     priority |-> [length |-> 1, avg_wait |-> 15]]

\* The queue snapshot of the remote backend.
RemoteQueues == [sales |-> [length |-> 7, avg_wait |-> 90]]

\* InboundService.get_queue_status
get_queue_status(session, remote) ==
    IF Request(session, remote) = "raises"
    THEN Returns(_get_mock_queue_data)
    ELSE IF Request(session, remote) = "200"
    THEN IF remote.body = "raises"
         THEN Returns(_get_mock_queue_data)
         ELSE Returns(RemoteQueues)
    ELSE Returns(_get_mock_queue_data)

\* InboundService._get_mock_analytics
_get_mock_analytics ==
    [summary |-> [totalCalls |-> 25, inboundCalls |-> 15, outboundCalls |-> 10,
                  completedCalls |-> 20, successRate |-> 80, avgDuration |-> 120],
     ivrAnalytics |-> [totalIVRCalls |-> 12, ivrUsageRate |-> 80,
                       routingBreakdown |-> [sales |-> 5, tech |-> 4, billing |-> 2, ai |-> 1]],
     aiMetrics |-> [aiCalls |-> 8, aiEngagementRate |-> 53, avgResponseTime |-> 800]]

\* The analytics of the remote backend.
RemoteAnalytics == [summary |-> [totalCalls |-> 3]]

\* InboundService.get_analytics
get_analytics(session, remote) ==
    IF Request(session, remote) = "raises"
    THEN Returns(_get_mock_analytics)
    ELSE IF Request(session, remote) = "200"
    THEN IF remote.body = "raises"
         THEN Returns(_get_mock_analytics)
         ELSE Returns(RemoteAnalytics)
    ELSE Returns(_get_mock_analytics)

\* InboundService.update_call_status: both statuses and every exception are
\* logged and nothing is returned.
update_call_status(session, remote) == Returns(None)

\* A call of the inbound service: the session is created if there is none, and
\* the call is answered from the outcome of the remote request.
InboundCall(op, remote, outcome) ==
    /\ http_session' = EnsureSession(http_session)
    /\ svc_result' = Called(op, [session |-> http_session, remote |-> remote], outcome)
    /\ UNCHANGED <<breaker, app_state, stt_env, tts_pc>>

ProcessInboundCall(remote) ==
    InboundCall("process_inbound_call", remote, process_inbound_call(http_session, remote))

GetQueueStatus(remote) ==
    InboundCall("get_queue_status", remote, get_queue_status(http_session, remote))

GetAnalytics(remote) ==
    InboundCall("get_analytics", remote, get_analytics(http_session, remote))

UpdateCallStatus(remote) ==
    InboundCall("update_call_status", remote, update_call_status(http_session, remote))

\* The names a client asks for: one in both snapshots, one in the fallback
\* snapshot only, one in neither.
QueueNames == {"sales", "tech", "nowhere"}

\* The handler's except clause: whatever was raised inside the try block,
\* an HTTPException included, is answered as a 500 with its text as detail.
InternalError(detail) == Raises([status_code |-> 500, detail |-> detail])

\* GET /inbound/queues/{queue_name}, given what get_queue_status returned: the
\* 404 is raised inside the try block.
get_specific_queue(queue_name, queue_status) ==
    IF queue_name \notin DOMAIN queue_status
    THEN InternalError("404: Queue not found")
    ELSE Returns(queue_status[queue_name])

\* A client asks for one queue of the snapshot.
GetSpecificQueue(queue_name, remote) ==
    /\ http_session' = EnsureSession(http_session)
    /\ svc_result' =
           Called("get_specific_queue",
                  [session |-> http_session, remote |-> remote, queue_name |-> queue_name],
                  get_specific_queue(queue_name,
                                     get_queue_status(http_session, remote).value))
    /\ UNCHANGED <<breaker, app_state, stt_env, tts_pc>>

\* InboundService.cleanup
Cleanup ==
    /\ http_session = "open"
    /\ http_session' = "closed"
    /\ UNCHANGED <<breaker, app_state, stt_env, tts_pc, svc_result>>

NextServices ==
    \/ \E audio_data \in AudioData, upstream \in Upstream : Transcribe(audio_data, upstream)
    \/ \E remote \in RemoteOutcomes : ProcessInboundCall(remote)
    \/ \E remote \in RemoteOutcomes : GetQueueStatus(remote)
    \/ \E remote \in RemoteOutcomes : GetAnalytics(remote)
    \/ \E remote \in RemoteOutcomes : UpdateCallStatus(remote)
    \/ \E queue_name \in QueueNames, remote \in RemoteOutcomes :
           GetSpecificQueue(queue_name, remote)
    \/ Cleanup

\* Start-up with whatever the installation provides.
InitServices == Setup /\ ws_max_connections = WS_MAX_CONNECTIONS /\ stt_env \in SttEnvs

\* The STT service and the inbound service, called one call at a time.
SpecServices == InitServices /\ [][NextServices]_vars

\* ----------------------------------- the synthesis service, called directly

\* The failure result of text_to_speech_bytes, with the counter it reports.
TtsUnavailable(failures) ==
    [success |-> FALSE,
     error |-> [message |-> "TTS service unavailable. Edge TTS failures", failures |-> failures],
     provider |-> "none"]

\* The success result of text_to_speech_bytes.
TtsAudio ==
    [success |-> TRUE, audio_data |-> "audio", format |-> "mp3", provider |-> "edge_tts"]

\* Variant of Synthesize: a short-circuited invocation is counted as a failure.
Synthesize_CountsShortCircuit(k) ==
    /\ tts_pc[k] = "idle"
    /\ IF EdgeEnabled
       THEN /\ tts_pc' = [tts_pc EXCEPT ![k] = "stream"]
            /\ UNCHANGED <<svc_result, breaker>>
       ELSE /\ svc_result' = Called("text_to_speech_bytes", [call |-> k],
                                    Returns(TtsUnavailable(edge_tts_failures + 1)))
            /\ edge_tts_failures' = edge_tts_failures + 1
            /\ UNCHANGED <<tts_pc, use_edge_tts, observed_failures>>
    /\ UNCHANGED <<app_state, stt_env, http_session>>

\* Invocation k of text_to_speech_bytes begins: past the guard it awaits the
\* stream of the adapter, otherwise it returns the failure at once.
Synthesize(k) ==
    /\ tts_pc[k] = "idle"
    /\ IF EdgeEnabled
       THEN /\ tts_pc' = [tts_pc EXCEPT ![k] = "stream"]
            /\ UNCHANGED svc_result
       ELSE /\ svc_result' = Called("text_to_speech_bytes", [call |-> k],
                                    Returns(TtsUnavailable(edge_tts_failures)))
            /\ UNCHANGED tts_pc
    /\ UNCHANGED <<breaker, app_state, stt_env, http_session>>

\* communicate.stream() of invocation k ends: with audio, or by raising.
StreamEnds(k, ok) ==
    /\ tts_pc[k] = "stream"
    /\ tts_pc' = [tts_pc EXCEPT ![k] = "idle"]
    /\ IF ok
       THEN /\ EdgeSuccess
            /\ observed_failures' = 0
            /\ svc_result' = Called("text_to_speech_bytes", [call |-> k], Returns(TtsAudio))
       ELSE /\ EdgeFailure
            /\ observed_failures' = observed_failures + 1
            /\ svc_result' = Called("text_to_speech_bytes", [call |-> k],
                                    Returns(TtsUnavailable(edge_tts_failures + 1)))
    /\ UNCHANGED <<app_state, stt_env, http_session>>

\* Variant of tts_health_check: the report is computed from the counter alone.
tts_health_check_CounterOnly ==
    [edge_tts_available |-> edge_tts_failures < max_failures,
     fallback_available |-> FALSE,
     edge_tts_failures |-> edge_tts_failures,
     max_failures |-> max_failures,
     current_provider |-> IF edge_tts_failures < max_failures THEN "edge_tts" ELSE "none"]

\* TTSService.health_check
tts_health_check ==
    [edge_tts_available |-> use_edge_tts /\ edge_tts_failures < max_failures,
     fallback_available |-> FALSE,
     edge_tts_failures |-> edge_tts_failures,
     max_failures |-> max_failures,
     current_provider |-> IF use_edge_tts THEN "edge_tts" ELSE "none"]

\* The orchestrator's health_check: the liveness of each stage, the Generation
\* stage's being its adapter's own answer.
pipeline_health_check(ai_ok) ==
    [stt |-> stt_health_check(stt_env),
     ai |-> ai_ok,
     tts |-> tts_health_check.edge_tts_available]

\* Variant of HealthStatus: one live stage is enough.
HealthStatus_AnyLive(health) ==
    IF \E stage \in DOMAIN health : health[stage] THEN "healthy" ELSE "degraded"

\* `"healthy" if all(health.values()) else "degraded"`
HealthStatus(health) ==
    IF \A stage \in DOMAIN health : health[stage] THEN "healthy" ELSE "degraded"

\* GET /health (and GET /, which leaves out the connection count).
HealthCheck(ai_ok) ==
    /\ svc_result' = Called("health_check", [ai |-> ai_ok],
                            Returns([status |-> HealthStatus(pipeline_health_check(ai_ok)),
                                     services |-> pipeline_health_check(ai_ok),
                                     connections |-> ConnectionCount]))
    /\ UNCHANGED <<breaker, app_state, stt_env, tts_pc, http_session>>

NextSynthesis ==
    \/ \E k \in Calls : Synthesize(k)
    \/ \E k \in Calls, ok \in BOOLEAN : StreamEnds(k, ok)
    \/ \E ai_ok \in BOOLEAN : HealthCheck(ai_ok)
    \/ reset_edge_tts

\* The synthesis service under overlapping direct invocations, and the health
\* endpoints that read it.
SpecSynthesis == InitServices /\ [][NextSynthesis]_vars

\* ------------------------------------- sessions and the REST force-reset

NextForceReset ==
    \/ Next
    \/ \E c \in CallIds : RestResetConversation(c)

\* The WebSocket sessions together with a REST client that force-resets call ids.
SpecForceReset == Init /\ [][NextForceReset]_vars

\* ------------------------------------------------ what the stages guarantee

\* The STT stage is a local computation that returns, and the Generation
\* adapter is given AI_TIMEOUT seconds: both stages end. The stream of the
\* synthesis adapter is awaited with no timeout, so nothing makes it end.
StagesEnd ==
    \A s \in Sessions :
        /\ WF_vars(\E ok \in BOOLEAN : SttDone(s, ok))
        /\ WF_vars(\E ok \in BOOLEAN : GenDone(s, ok))

\* The WebSocket sessions, with the stages that are bound to end ending.
SpecLive == Init /\ [][Next]_vars /\ StagesEnd

\* ================================================================ claims

Failed(res) == res \in Results /\ ~Success(res)

\* Session s, at the end of the Generation stage, invokes the synthesis in this step.
InvokesSynthesis(s) ==
    /\ pc[s] = "gen"
    /\ pc'[s] # "gen"
    /\ ~(handled'.sid = s /\ handled'.result = "gen_error")

\* C1: once max_failures adapter invocations have failed in a row since the last
\* success or reset, whichever sessions issued them, the breaker is tripped
\* (use_edge_tts is false); and a synthesis invoked while it is tripped returns a
\* failure without calling the adapter.
C1_TripsAtThreshold ==
    /\ [](observed_failures >= max_failures => ~use_edge_tts)
    /\ [][\A s \in Sessions :
             (~use_edge_tts /\ InvokesSynthesis(s)) =>
                 (pc'[s] = "receive" /\ handled'.sid = s /\ Failed(handled'.result))]_vars

\* C1 witness: exactly max_failures failures were observed, the breaker is
\* tripped, and the step just taken was a short-circuited synthesis.
C1_Witness ==
    /\ observed_failures = max_failures
    /\ ~use_edge_tts
    /\ handled.result = "tts_unavailable"

\* C2: in every reachable state the breaker is tripped (use_edge_tts is false)
\* exactly when the failure counter has reached max_failures.
C2_TrippedIffThreshold == (~use_edge_tts) <=> (edge_tts_failures >= max_failures)

\* C3: a synthesis invocation that completes successfully leaves the counter at 0
\* and the breaker not tripped.
C3_SuccessClearsBreaker ==
    Success(handled.result) => (edge_tts_failures = 0 /\ use_edge_tts)

\* C4: an adapter invocation that succeeds sets the counter to 0 and one that
\* fails adds exactly 1 to it, so the breaker goes from enabled to tripped only
\* when max_failures failures in a row have been observed.
C4_CounterSteps ==
    /\ [][\A s \in Sessions :
             (pc[s] = "tts" /\ pc'[s] # "tts") =>
                 IF Success(handled'.result)
                 THEN edge_tts_failures' = 0
                 ELSE edge_tts_failures' = edge_tts_failures + 1]_vars
    /\ [][(use_edge_tts /\ ~use_edge_tts') => observed_failures' >= max_failures]_vars

\* C4 witness: a failed adapter invocation has just been counted, below the
\* threshold, after an earlier failure.
C4_Witness ==
    /\ handled.result = "tts_error"
    /\ edge_tts_failures = max_failures - 1
    /\ use_edge_tts

\* C5: once the breaker is tripped it stays tripped until reset_edge_tts runs, and
\* every synthesis invoked meanwhile fails without an adapter call.
C5_NoAutomaticRecovery ==
    /\ [][(~use_edge_tts /\ use_edge_tts') => handled'.type = "reset_edge_tts"]_vars
    /\ [][\A s \in Sessions :
             (~use_edge_tts /\ InvokesSynthesis(s)) =>
                 (pc'[s] # "tts" /\ handled'.result = "tts_unavailable")]_vars

\* C5 witness: the breaker is tripped, a late success has put the counter back to
\* 0, and the synthesis just invoked was still short-circuited.
C5_Witness ==
    /\ ~use_edge_tts
    /\ edge_tts_failures = 0
    /\ handled.result = "tts_unavailable"

\* C6: reset_edge_tts leaves the counter at 0 and the breaker enabled, whatever
\* the state before, and a synthesis invoked with the breaker in that state calls
\* the adapter.
C6_ResetReenables ==
    /\ [](handled.type = "reset_edge_tts" => (edge_tts_failures = 0 /\ use_edge_tts))
    /\ [][\A s \in Sessions :
             (use_edge_tts /\ edge_tts_failures = 0 /\ InvokesSynthesis(s)) =>
                 pc'[s] = "tts"]_vars

\* C6 witness: reset_edge_tts has just run, the breaker is enabled with the
\* counter at 0, and a session is about to invoke the synthesis.
C6_Witness ==
    /\ handled.type = "reset_edge_tts"
    /\ use_edge_tts
    /\ edge_tts_failures = 0
    /\ \E s \in Sessions : pc[s] = "gen"

\* C7: for an audio_chunk whose process_audio call returned, the loop sent
\* exactly transcription, ai_response, audio_response in that order on success,
\* and exactly one error on failure.
C7_AudioOutbound ==
    (handled.type = "audio_chunk" /\ handled.result # "none") =>
        IF Success(handled.result)
        THEN handled.emitted = <<"transcription", "ai_response", "audio_response">>
        ELSE handled.emitted = <<"error">>

\* C7 witness: an audio_chunk has just been handled with a successful pipeline result.
C7_Witness == handled.type = "audio_chunk" /\ Success(handled.result)

\* C8: for a text_message whose process_text call returned, the loop sent a
\* single ai_response on success and an error on failure.
C8_TextOutbound ==
    (handled.type = "text_message" /\ handled.result # "none") =>
        IF Success(handled.result)
        THEN handled.emitted = <<"ai_response">>
        ELSE handled.emitted = <<"error">>

\* C9: whenever the receive loop of a session ends, the step that ends it leaves
\* the session's call id unregistered and its history empty.
C9_TeardownOnExit ==
    [][\A s \in Sessions :
          (pc[s] \in {"receive", "stt", "gen", "tts"} /\ pc'[s] = "closed") =>
              /\ active_connections'[call_id[s]] = None
              /\ conversation_history'[call_id[s]] = <<>>]_vars

\* C9 witness: a loop has just ended on end_call.
C9_Witness ==
    /\ handled.type = "end_call"
    /\ pc[handled.sid] = "closed"
    /\ active_connections[handled.call] = None
    /\ conversation_history[handled.call] = <<>>

\* C10: the step in which a pipeline call returns a failure puts the session back
\* at its receive, leaves the registry and the connection handles as they were
\* and clears no history.
C10_FailureKeepsSession ==
    [][\A s \in Sessions :
          (handled'.sid = s /\ Failed(handled'.result) /\ pc[s] \in {"stt", "gen", "tts"}) =>
              /\ pc'[s] = "receive"
              /\ active_connections' = active_connections
              /\ ws_open' = ws_open
              /\ call_id' = call_id
              /\ \A c \in CallIds :
                     Len(conversation_history'[c]) >= Len(conversation_history[c])]_vars

\* C10 witness: a pipeline call has just failed in a session that is registered
\* and back at its receive.
C10_Witness ==
    /\ Failed(handled.result)
    /\ handled.sid # None
    /\ pc[handled.sid] = "receive"
    /\ active_connections[handled.call] = handled.sid

\* C11: the loop of a session never ends in reaction to a received message other
\* than end_call (such as an audio_chunk whose audio field is missing or is not
\* hex) without an error message having been sent for that message.
C11_ErrorBeforeExit ==
    (/\ handled.sid # None
     /\ handled.type \in InboundTypes \ {"end_call"}
     /\ pc[handled.sid] = "closed")
        => \E i \in DOMAIN handled.emitted : handled.emitted[i] = "error"

\* Session s is in the middle of handling a message: a pipeline stage is awaited.
InPipeline(s) == pc[s] \in {"stt", "gen", "tts"}

\* In this step the receive of session s returns (with a message or by raising).
Reads(s) ==
    \/ message_type'[s] # "none" /\ message_type'[s] # message_type[s]
    \/ handled'.sid = s /\ handled'.result = "none"
                        /\ handled'.type \in InboundTypes \cup {"read_error"}

\* C12: a session reads an inbound message only when no message of its own is
\* being handled; a message is in the pipeline exactly while one of its stages
\* is awaited; and the outbound messages of a message are all sent in the step
\* that finishes it, which leaves the session at its receive.
C12_SequentialHandling ==
    /\ [][\A s \in Sessions :
             Reads(s) => (pc[s] = "receive" /\ message_type[s] = "none")]_vars
    /\ [](\A s \in Sessions : InPipeline(s) <=> message_type[s] # "none")
    /\ [][\A s \in Sessions :
             (handled'.sid = s /\ handled'.emitted # <<>>) =>
                 /\ pc'[s] = "receive"
                 /\ message_type'[s] = "none"
                 /\ handled'.emitted =
                        IF handled'.result = "none"
                        THEN ControlReply(handled'.type)
                        ELSE Outbound(message_type[s], handled'.result)]_vars

\* C12 witness: a session is in the middle of a message (its synthesis is
\* awaited) and the step just taken sent the outbound messages of another session.
C12_Witness ==
    \E s, t \in Sessions :
        /\ s # t
        /\ pc[s] = "tts"
        /\ handled.sid = t
        /\ handled.emitted = <<"transcription", "ai_response", "audio_response">>

\* C13: the registry holds at most one handle per call id, that handle is open
\* and belongs to a session of that call id; and a connect for a call id that is
\* already registered closes the handle registered before and registers the new one.
C13_OneSessionPerCallId ==
    /\ [](\A c \in CallIds :
             active_connections[c] # None =>
                 /\ ws_open[active_connections[c]]
                 /\ call_id[active_connections[c]] = c
                 /\ Cardinality({s \in Sessions :
                        ws_open[s] /\ call_id[s] = c /\ active_connections[c] = s}) = 1)
    /\ [][\A s \in Sessions, c \in CallIds :
             (/\ pc[s] = "init" /\ pc'[s] = "receive" /\ call_id'[s] = c
              /\ active_connections[c] # None) =>
                 /\ active_connections'[c] = s
                 /\ ws_open'[s]
                 /\ ~ws_open'[active_connections[c]]]_vars

\* C13 witness: a connect has just replaced the handle of another session that
\* was registered under the same call id, and that handle is closed.
C13_Witness ==
    /\ handled.type = "connect"
    /\ handled.registered \notin {None, handled.sid}
    /\ active_connections[handled.call] = handled.sid
    /\ ws_open[handled.sid]
    /\ ~ws_open[handled.registered]

\* C14: the number of registered sessions never exceeds the configured limit;
\* and a connect for a call id that is not registered, made while the registry
\* holds as many sessions as the limit allows, is refused with a capacity error,
\* leaving the registry and every open handle as they were.
C14_CapacityBound ==
    /\ [](ConnectionCount <= ws_max_connections)
    /\ [][\A s \in Sessions :
             (/\ pc[s] = "init" /\ pc'[s] # "init"
              /\ active_connections[handled'.call] = None
              /\ ConnectionCount = ws_max_connections) =>
                 /\ handled'.result = "capacity_error"
                 /\ pc'[s] = "closed"
                 /\ active_connections' = active_connections
                 /\ ws_open' = ws_open
                 /\ ConnectionCount' = ws_max_connections]_vars

\* C14 witness: a connect has just been refused with the registry full, and the
\* sessions registered before are still registered and open.
C14_Witness ==
    /\ handled.type = "connect"
    /\ handled.result = "capacity_error"
    /\ pc[handled.sid] = "closed"
    /\ ConnectionCount = ws_max_connections
    /\ \A c \in CallIds : active_connections[c] # None => ws_open[active_connections[c]]

\* C15: the step that ends the loop of a connected session removes its call id
\* from the registry, so that the count no longer includes it; and outbound
\* messages sent to a call id that is not registered go to no handle, leave the
\* registry as it was and do not end the loop that sent them.
C15_SendAfterDisconnect ==
    /\ [][\A s \in Sessions :
             (pc[s] \notin {"init", "closed"} /\ pc'[s] = "closed") =>
                 /\ active_connections'[call_id[s]] = None
                 /\ ConnectionCount' =
                        IF active_connections[call_id[s]] = None
                        THEN ConnectionCount ELSE ConnectionCount - 1]_vars
    /\ [][\A s \in Sessions :
             (/\ handled'.sid = s /\ handled'.emitted # <<>>
              /\ pc[s] \notin {"init", "closed"}
              /\ active_connections[call_id[s]] = None) =>
                 /\ handled'.registered = None
                 /\ active_connections' = active_connections
                 /\ ws_open' = ws_open
                 /\ pc'[s] = "receive"]_vars

\* C15 witness: a session whose call id was connected and then disconnected has
\* just sent outbound messages: no handle received them, the call id is still
\* unregistered and the session is back at its receive.
C15_Witness ==
    /\ handled.sid # None
    /\ handled.emitted # <<>>
    /\ handled.registered = None
    /\ active_connections[handled.call] = None
    /\ pc[handled.sid] = "receive"

\* C16: disconnect followed by reset_conversation, applied a second time to the
\* same call id, changes nothing; a teardown of a call id that is no longer
\* registered still completes, leaving no session and an empty history for it;
\* and a reset of a call id the store holds no turns for changes nothing and is
\* answered.
C16_TeardownIdempotent ==
    /\ [](\A c \in CallIds :
             LET reg1 == disconnect(active_connections, c)
                 h1 == reset_conversation(conversation_history, c)
             IN  /\ disconnect(reg1, c) = reg1
                 /\ reset_conversation(h1, c) = h1
                 /\ reg1[c] = None
                 /\ h1[c] = <<>>)
    /\ [][\A s \in Sessions :
             (/\ pc[s] \notin {"init", "closed"} /\ pc'[s] = "closed"
              /\ active_connections[call_id[s]] = None) =>
                 /\ active_connections' = active_connections
                 /\ conversation_history'[call_id[s]] = <<>>
                 /\ conversation_history[call_id[s]] = <<>> =>
                        conversation_history' = conversation_history]_vars
    /\ [][\A s \in Sessions :
             (/\ handled'.sid = s /\ handled'.type = "reset"
              /\ pc[s] = "receive"
              /\ conversation_history[call_id[s]] = <<>>) =>
                 /\ conversation_history' = conversation_history
                 /\ handled'.emitted = <<"reset_complete">>]_vars

\* C16 witness: the loop of a session has just ended and run its teardown on a
\* call id that an earlier teardown had already unregistered.
C16_Witness ==
    /\ handled.type \in {"end_call", "read_error"}
    /\ handled.registered = None
    /\ pc[handled.sid] = "closed"
    /\ active_connections[handled.call] = None
    /\ conversation_history[handled.call] = <<>>

\* The history that n successful calls with the texts of seq leave behind: for
\* each call, in order, its user turn followed by the reply to it.
Exchanges(seq) ==
    [i \in 1..(2 * Len(seq)) |->
        IF i % 2 = 1 THEN UserTurn(seq[(i + 1) \div 2])
        ELSE AssistantTurn(Reply(seq[i \div 2]))]

\* C17: when the one-shot text calls made on a call id since its last reset were
\* made one after another and all succeeded, the history of the call id is, for
\* each of these calls in order, its user turn followed by the reply to it (twice
\* as many turns as calls); a call in flight has added its user turn, and its
\* reply once the Generation stage has returned.
C17_TwoTurnsPerCall ==
    \A c \in CallIds :
        ~mixed[c] =>
            /\ InFlight(c) = {} => conversation_history[c] = Exchanges(successes[c])
            /\ \A r \in InFlight(c) :
                   /\ rest_pc[r] = "gen" =>
                          conversation_history[c] =
                              Append(Exchanges(successes[c]), UserTurn(rest_text[r]))
                   /\ rest_pc[r] = "tts" =>
                          conversation_history[c] =
                              Exchanges(Append(successes[c], rest_text[r]))

\* C17 witness: two successful calls with different texts were made on one call
\* id, one after the other, and its history holds their four turns.
C17_Witness ==
    \E c \in CallIds :
        /\ ~mixed[c]
        /\ InFlight(c) = {}
        /\ successes[c] = <<"bye", "hello">>
        /\ Len(conversation_history[c]) = 4
        /\ handled.type = "process_text"
        /\ Success(handled.result)

\* C18: a reset of call id c is possible in every state and succeeds; the history
\* of c read right after it is empty, whatever it was before, and the history
\* of every other call id is what it was.
C18_ResetClearsOneHistory ==
    /\ [](\A c \in CallIds : ENABLED RestResetConversation(c))
    /\ [](\A c \in CallIds :
             LET h1 == reset_conversation(conversation_history, c)
             IN  /\ h1[c] = <<>>
                 /\ \A d \in CallIds \ {c} : h1[d] = conversation_history[d])
    /\ [][\A c \in CallIds :
             (handled'.type = "reset_conversation" /\ handled'.call = c) =>
                 /\ Success(handled'.result)
                 /\ conversation_history'[c] = <<>>
                 /\ \A d \in CallIds \ {c} :
                        conversation_history'[d] = conversation_history[d]]_vars

\* C18 witness: a reset has just emptied the history of a call id on which a call
\* is still in flight, and the other call id keeps its turns.
C18_Witness ==
    /\ handled.type = "reset_conversation"
    /\ conversation_history[handled.call] = <<>>
    /\ InFlight(handled.call) # {}
    /\ \E d \in CallIds \ {handled.call} : Len(conversation_history[d]) >= 2

\* C19: when the STT stage of process_audio fails, the call returns a failure
\* that names the STT error, neither the Generation nor the Synthesis stage is
\* entered, no turn is appended to any history and the breaker is as it was; the
\* loop answers with one error message. The Generation stage is entered from the
\* STT stage only with the transcription appended as a user turn.
C19_SttFailureShortCircuits ==
    /\ [][\A s \in Sessions :
             (pc[s] = "stt" /\ pc'[s] \notin {"stt", "gen"}) =>
                 /\ handled'.sid = s
                 /\ handled'.type = "audio_chunk"
                 /\ handled'.result = "stt_error"
                 /\ Failed(handled'.result)
                 /\ handled'.emitted = <<"error">>
                 /\ pc'[s] = "receive"
                 /\ conversation_history' = conversation_history
                 /\ edge_tts_failures' = edge_tts_failures
                 /\ use_edge_tts' = use_edge_tts
                 /\ observed_failures' = observed_failures]_vars
    /\ [][\A s \in Sessions :
             (pc[s] = "stt" /\ pc'[s] = "gen") =>
                 conversation_history' =
                     Append_turn(conversation_history, call_id[s], UserTurn("hello"))]_vars

\* C19 witness: an audio_chunk has just failed in its STT stage, with the breaker
\* counter above 0 and no turn in the call's history.
C19_Witness ==
    /\ handled.type = "audio_chunk"
    /\ handled.result = "stt_error"
    /\ pc[handled.sid] = "receive"
    /\ conversation_history[handled.call] = <<>>
    /\ edge_tts_failures > 0

\* C20: when the Generation stage of process_audio fails, the call returns a
\* failure that names the generation error and carries the transcription but no
\* reply and no audio; the synthesis is not invoked (the breaker is as it was),
\* no turn is appended, so that the user turn appended after the STT stage is
\* the last the call added, and the loop answers with one error message. The
\* synthesis is invoked, or short-circuited, only with the reply appended as an
\* assistant turn.
C20_GenFailureKeepsUserTurn ==
    /\ [][\A s \in Sessions :
             (/\ pc[s] = "gen" /\ message_type[s] = "audio_chunk"
              /\ handled'.sid = s /\ handled'.result = "gen_error") =>
                 /\ Failed(handled'.result)
                 /\ Attached(handled'.type, handled'.result) = {"transcription", "error"}
                 /\ handled'.emitted = <<"error">>
                 /\ pc'[s] = "receive"
                 /\ conversation_history' = conversation_history
                 /\ edge_tts_failures' = edge_tts_failures
                 /\ use_edge_tts' = use_edge_tts
                 /\ observed_failures' = observed_failures]_vars
    /\ [][\A s \in Sessions :
             (pc[s] = "gen" /\ pc'[s] # "gen" /\ handled'.result # "gen_error") =>
                 conversation_history' =
                     Append_turn(conversation_history, call_id[s],
                                 AssistantTurn("hi there"))]_vars

\* C20 witness: an audio_chunk has just failed in its Generation stage, and the
\* call's history holds the user turn of its transcription and nothing else.
C20_Witness ==
    /\ handled.type = "audio_chunk"
    /\ handled.result = "gen_error"
    /\ pc[handled.sid] = "receive"
    /\ conversation_history[handled.call] = <<UserTurn("hello")>>

\* C21: a synthesis failure, a short-circuit of the tripped breaker included,
\* is a hard failure of the pipeline call: the result is a failure that carries
\* the error and the reply (and, for audio, the transcription), the assistant turn
\* is in the history, and the loop sends the client exactly one error message
\* for that turn.
C21_SynthesisFailureIsHard ==
    \A s \in Sessions :
        (handled.sid = s /\ handled.result \in {"tts_error", "tts_unavailable"}) =>
            /\ Failed(handled.result)
            /\ {"error", "ai_response"} \subseteq Attached(handled.type, handled.result)
            /\ (handled.type = "audio_chunk" =>
                    "transcription" \in Attached(handled.type, handled.result))
            /\ (handled.result = "tts_unavailable" =>
                    /\ conversation_history[handled.call] # <<>>
                    /\ conversation_history[handled.call]
                           [Len(conversation_history[handled.call])].role = "assistant")
            /\ handled.emitted = <<"error">>

\* C22: transcribe_audio never raises to its caller: for every audio input,
\* installation and upstream behaviour it returns a result with a success flag;
\* a failure carries a non-empty error and an empty text, a success carries a
\* text and no error.
C22_SttNeverRaises ==
    svc_result.op = "transcribe_audio" =>
        /\ ~svc_result.outcome.raised
        /\ "success" \in DOMAIN svc_result.outcome.value
        /\ svc_result.outcome.value.success \in BOOLEAN
        /\ IF svc_result.outcome.value.success
           THEN /\ "text" \in DOMAIN svc_result.outcome.value
                /\ "error" \notin DOMAIN svc_result.outcome.value
           ELSE /\ "error" \in DOMAIN svc_result.outcome.value
                /\ svc_result.outcome.value.error # ""
                /\ svc_result.outcome.value.text = <<>>

\* C22 witness: with everything installed, the preprocessing of readable audio
\* raised and the call returned a failure.
C22_Witness ==
    /\ svc_result.op = "transcribe_audio"
    /\ stt_health_check(stt_env)
    /\ svc_result.input.audio_data = "speech"
    /\ svc_result.input.upstream.preprocess = "raises"
    /\ ~svc_result.outcome.raised
    /\ ~svc_result.outcome.value.success

\* The remote backend answered the call recorded in svc_result with status 200.
Answered200 == Request(svc_result.input.session, svc_result.input.remote) = "200"

\* The inbound-service call recorded in svc_result returned without raising.
InboundReturned ==
    svc_result.op \in {"process_inbound_call", "get_queue_status", "get_analytics",
                       "update_call_status"}
        => ~svc_result.outcome.raised

\* C23 as stated: no call of the inbound service raises; process_inbound_call
\* returns success with a markup, routed as nodejs_backend exactly when the
\* remote answered 200 and as fallback_ai otherwise; get_queue_status and
\* get_analytics return the fixed fallback when the remote did not answer 200.
C23_RoutedByStatus ==
    /\ InboundReturned
    /\ svc_result.op = "process_inbound_call" =>
           /\ svc_result.outcome.value.success
           /\ svc_result.outcome.value.twiml # ""
           /\ svc_result.outcome.value.routing =
                  IF Answered200 THEN "nodejs_backend" ELSE "fallback_ai"
    /\ (svc_result.op = "get_queue_status" /\ ~Answered200) =>
           svc_result.outcome.value = _get_mock_queue_data
    /\ (svc_result.op = "get_analytics" /\ ~Answered200) =>
           svc_result.outcome.value = _get_mock_analytics

\* C23 amended: the routing is nodejs_backend exactly when the remote answered
\* 200 and the body of the answer was read; a 200 whose body cannot be read is
\* routed as fallback_ai, and gives the fallback snapshot, like every other failure.
C23_RoutedByAnswer ==
    /\ InboundReturned
    /\ svc_result.op = "process_inbound_call" =>
           /\ svc_result.outcome.value.success
           /\ svc_result.outcome.value.twiml # ""
           /\ svc_result.outcome.value.routing =
                  IF Answered200 /\ svc_result.input.remote.body = "ok"
                  THEN "nodejs_backend" ELSE "fallback_ai"
    /\ (svc_result.op = "get_queue_status"
            /\ ~(Answered200 /\ svc_result.input.remote.body = "ok")) =>
           svc_result.outcome.value = _get_mock_queue_data
    /\ (svc_result.op = "get_analytics"
            /\ ~(Answered200 /\ svc_result.input.remote.body = "ok")) =>
           svc_result.outcome.value = _get_mock_analytics

\* C23 witness: the remote answered 200, reading the body raised, and the call
\* was routed to the fallback.
C23_Witness ==
    /\ svc_result.op = "process_inbound_call"
    /\ Answered200
    /\ svc_result.input.remote.body = "raises"
    /\ svc_result.outcome.value.routing = "fallback_ai"

\* C24: a health report says healthy exactly when every stage of its mapping is
\* live and degraded otherwise; the synthesis stage is live exactly when the
\* breaker is not tripped; and computing the report starts no adapter call and
\* changes neither the breaker, the store, the registry nor any service.
C24_HealthAggregation ==
    /\ [](svc_result.op = "health_check" =>
            /\ svc_result.outcome.value.status \in {"healthy", "degraded"}
            /\ svc_result.outcome.value.status = "healthy" <=>
                   \A stage \in DOMAIN svc_result.outcome.value.services :
                       svc_result.outcome.value.services[stage])
    /\ [](\A ai_ok \in BOOLEAN : pipeline_health_check(ai_ok).tts <=> use_edge_tts)
    /\ [][(svc_result'.op = "health_check" /\ svc_result' # svc_result) =>
             /\ svc_result'.outcome.value.services.tts <=> use_edge_tts
             /\ UNCHANGED <<breaker, app_state, stt_env, tts_pc, http_session>>]_vars

\* C24 witness: with the breaker tripped and the other stages live, the report
\* just computed says degraded.
C24_Witness ==
    /\ svc_result.op = "health_check"
    /\ ~use_edge_tts
    /\ svc_result.outcome.value.services.stt
    /\ svc_result.outcome.value.services.ai
    /\ ~svc_result.outcome.value.services.tts
    /\ svc_result.outcome.value.status = "degraded"

\* Session s is live on call id c: it is the registered handle of c, its
\* connection is open and its loop is running.
Live(s, c) ==
    /\ active_connections[c] = s
    /\ ws_open[s]
    /\ pc[s] \notin {"init", "closed"}

\* The step is one of session s's own loop.
StepOf(s) == handled'.sid = s \/ pc'[s] # pc[s]

\* C25: while a session is live on a call id, the history of that call id is
\* changed only by steps of that session's own loop: by no other session and by
\* no REST request.
C25_SingleWriter ==
    [][\A s \in Sessions, c \in CallIds :
          (Live(s, c) /\ conversation_history'[c] # conversation_history[c]) => StepOf(s)]_vars

\* A ping or a reset that session s has just handled at its receive point.
Controls(s, type) == pc[s] = "receive" /\ handled'.sid = s /\ handled'.type = type

\* C26: a ping is answered by exactly one pong, runs no stage of the pipeline and
\* leaves history, registry and breaker as they were; a reset clears the history
\* of the session's own call id and of no other, is answered by exactly one
\* reset_complete, and runs no stage either.
C26_PingAndReset ==
    [][\A s \in Sessions :
          /\ Controls(s, "ping") =>
                 /\ handled'.emitted = <<"pong">>
                 /\ pc'[s] = "receive"
                 /\ UNCHANGED <<conversation_history, active_connections, breaker>>
          /\ Controls(s, "reset") =>
                 /\ handled'.emitted = <<"reset_complete">>
                 /\ pc'[s] = "receive"
                 /\ conversation_history' =
                        [conversation_history EXCEPT ![call_id[s]] = <<>>]
                 /\ UNCHANGED <<active_connections, breaker>>]_vars

\* C26 witness: a reset has just cleared the history of its own call id while
\* the other call id keeps its turns.
C26_Witness ==
    /\ handled.type = "reset"
    /\ handled.emitted = <<"reset_complete">>
    /\ conversation_history[handled.call] = <<>>
    /\ \E c \in CallIds : conversation_history[c] # <<>>

\* C28: a message whose type tag is absent or not recognized is a no-op: it runs
\* no stage, sends nothing, leaves history, registry and breaker as they were,
\* and the loop goes on at its receive point with the session's registration
\* as it was.
C28_UnknownTypeIsNoOp ==
    [][\A s \in Sessions :
          Controls(s, "unknown") =>
              /\ handled'.emitted = <<>>
              /\ handled'.result = "none"
              /\ pc'[s] = "receive"
              /\ ws_open'[s]
              /\ call_id'[s] = call_id[s]
              /\ UNCHANGED <<conversation_history, active_connections, breaker,
                             message_type>>]_vars

\* C28 witness: a registered session with turns in its history has just read a
\* message of an unknown type and is at its receive point again.
C28_Witness ==
    /\ handled.type = "unknown"
    /\ handled.sid \in Sessions
    /\ pc[handled.sid] = "receive"
    /\ active_connections[handled.call] = handled.sid
    /\ conversation_history[handled.call] # <<>>

\* C27: an end_call ends the loop of its session: the step sends nothing,
\* deregisters the call id and clears its history, and from then on the session
\* reads and handles no message and nothing is sent for it.
C27_EndCallEndsLoop ==
    [][\A s \in Sessions :
          /\ Controls(s, "end_call") =>
                 /\ handled'.emitted = <<>>
                 /\ pc'[s] = "closed"
                 /\ active_connections' = disconnect(active_connections, call_id[s])
                 /\ conversation_history' =
                        reset_conversation(conversation_history, call_id[s])
          /\ pc[s] = "closed" =>
                 /\ pc'[s] = "closed"
                 /\ handled'.sid # s]_vars

\* C27 witness: an end_call has just closed a session; its call id is
\* deregistered and its history is empty.
C27_Witness ==
    /\ handled.type = "end_call"
    /\ handled.sid \in Sessions
    /\ pc[handled.sid] = "closed"
    /\ active_connections[handled.call] = None
    /\ conversation_history[handled.call] = <<>>

\* C29: no adapter invocation hangs the loop: a session that is handling a
\* message, a stage of the pipeline being awaited, eventually is through with it
\* (back at its receive point, or closed), also when the awaited stage never
\* answers.
C29_HandlingCompletes ==
    \A s \in Sessions : InPipeline(s) ~> ~InPipeline(s)

\* C30: replacing a session does not orphan its successor: a session whose
\* connection is open and whose loop is running is the registered handle of its
\* call id, whatever a displaced session's teardown does.
C30_NewerSessionStaysRegistered ==
    \A s \in Sessions :
        (ws_open[s] /\ pc[s] \notin {"init", "closed"}) =>
            active_connections[call_id[s]] = s

\* C31: the failure counter of the breaker stays within 0..max_failures in
\* every reachable state, also when several invocations passed the guard before
\* any of them failed.
C31_CounterWithinThreshold ==
    edge_tts_failures \in 0..max_failures

\* In this step an invocation of text_to_speech_bytes made while the breaker is
\* tripped returns without having awaited the adapter.
ShortCircuits ==
    /\ ~use_edge_tts
    /\ svc_result'.op = "text_to_speech_bytes"
    /\ svc_result' # svc_result
    /\ tts_pc' = tts_pc

\* C32: a short-circuited invocation leaves the counter and the flag of the
\* breaker as they were, and returns a failure with provider none and a
\* non-empty error.
C32_ShortCircuitKeepsBreaker ==
    [][ShortCircuits =>
          /\ UNCHANGED <<edge_tts_failures, use_edge_tts>>
          /\ ~svc_result'.outcome.raised
          /\ ~svc_result'.outcome.value.success
          /\ svc_result'.outcome.value.provider = "none"
          /\ svc_result'.outcome.value.error.message # ""]_vars

\* C32 witness: the breaker is tripped, a late success has put the counter back
\* to 0, and the invocation just made was short-circuited: its error reports
\* the counter as 0, which no failed adapter call does.
C32_Witness ==
    /\ ~use_edge_tts
    /\ edge_tts_failures = 0
    /\ svc_result.op = "text_to_speech_bytes"
    /\ ~svc_result.outcome.value.success
    /\ svc_result.outcome.value.provider = "none"
    /\ svc_result.outcome.value.error.failures = 0

\* C33: the health report of the breaker agrees with what the next invocation
\* of text_to_speech_bytes would do: edge_tts_available is true exactly when it
\* would call the adapter, and current_provider is none exactly when it would be
\* short-circuited.
C33_ReportAgreesWithGuard ==
    /\ tts_health_check.edge_tts_available <=> EdgeEnabled
    /\ tts_health_check.current_provider = "none" <=> ~EdgeEnabled
    /\ tts_health_check.current_provider \in {"edge_tts", "none"}

\* C33 witness: a health report has just been computed with the breaker tripped
\* and the counter back at 0 after a late success: the report says unavailable,
\* provider none, and the next invocation is short-circuited.
C33_Witness ==
    /\ svc_result.op = "health_check"
    /\ ~svc_result.outcome.value.services.tts
    /\ ~use_edge_tts
    /\ edge_tts_failures = 0
    /\ tts_health_check.current_provider = "none"
    /\ ~EdgeEnabled

\* C34: a one-shot text request whose text is missing or empty is answered with
\* a 400 error without the pipeline being invoked: the request is done in the
\* step that reads it, and neither a history nor the breaker changes.
C34_EmptyTextRejected ==
    [][\A r \in Requests :
          (rest_pc[r] = "idle" /\ rest_pc'[r] = "done") =>
              /\ handled'.type = "process_text"
              /\ handled'.result = "http_400"
              /\ UNCHANGED <<conversation_history, breaker>>]_vars

\* C35: asking for a queue whose name is not in the snapshot, remote or
\* fallback, is answered with a 404 "Queue not found"; asking for one that is
\* in it returns that queue's entry, also when the snapshot is the fallback one.
C35_SpecificQueue ==
    svc_result.op = "get_specific_queue" =>
        LET snapshot == get_queue_status(svc_result.input.session,
                                         svc_result.input.remote).value
        IN  IF svc_result.input.queue_name \in DOMAIN snapshot
            THEN /\ ~svc_result.outcome.raised
                 /\ svc_result.outcome.value = snapshot[svc_result.input.queue_name]
            ELSE /\ svc_result.outcome.raised
                 /\ svc_result.outcome.exception.status_code = 404
                 /\ svc_result.outcome.exception.detail = "Queue not found"

====
